---- MODULE Spec2Model ----
(***************************************************************************)
(* Model of the aux HTTP service (src/main.go): startup (main,             *)
(* newAWSClients), the gin router with its four routes, and the request    *)
(* handlers running concurrently, one per inbound request.                 *)
(***************************************************************************)
EXTENDS Integers, Sequences, FiniteSets, TLC

\* ------------------------------------------------------------------ bounds
\* Number of request slots handled concurrently by the server.
MaxReqs == 2
\* Longest list a listing call of the remote API returns in the model.
MaxItems == 2

Reqs == 1..MaxReqs

\* Values of the VERSION environment variable (a set-but-empty one included).
Versions == {"", "1.0.0"}
\* Names of buckets / parameters the remote API may return.
Names == {"a", "b"}
\* Path parameters of GET /parameters/:name.
PathNames == {"foo", "missing"}
\* Parameter values the parameter store may return.
Values == {"bar"}
\* Errors a remote call may return while its context is alive.
RemoteErrors == {"NotFound", "AccessDenied"}
\* Error of a remote call whose context was cancelled.
Canceled == "Canceled"
NoErr == ""

\* context.Background(): the context of main, never cancelled.
Background == 0

\* ------------------------------------------------------------ Go values
\* *string
NilPtr == [isNil |-> TRUE, val |-> ""]
Ptr(s) == [isNil |-> FALSE, val |-> s]
Ptrs(S) == {NilPtr} \cup {Ptr(s) : s \in S}

\* *types.Parameter, with its Value *string
NilParameter == [isNil |-> TRUE, Value |-> NilPtr]
Parameter(v) == [isNil |-> FALSE, Value |-> v]

\* []string: the nil slice differs from an empty, non-nil one
NilSlice == [isNil |-> TRUE, elems |-> <<>>]
append(s, x) == [isNil |-> FALSE, elems |-> Append(s.elems, x)]

\* Sequences over S of length at most n.
SeqsUpTo(S, n) == UNION {[1..k -> S] : k \in 0..n}

\* ------------------------------------------------------ types of main.go
\* type Config struct { VERSION string `required:"true"` }
Config(v) == [VERSION |-> v]
NoConfig == Config("")

\* type awsClients struct { s3, ssm }
awsClients == [s3 |-> "s3.Client", ssm |-> "ssm.Client"]
NoClients == [s3 |-> "nil", ssm |-> "nil"]

\* The JSON encoding of the Data field of a response.
NoData == [kind |-> "none", items |-> <<>>, str |-> ""]
JSONNull == [kind |-> "null", items |-> <<>>, str |-> ""]
JSONArray(xs) == [kind |-> "array", items |-> xs, str |-> ""]
JSONString(s) == [kind |-> "string", items |-> <<>>, str |-> s]

\* encoding/json on a []string held in an `any`: a nil slice is null.
jsonStrings(s) == IF s.isNil THEN JSONNull ELSE JSONArray(s.elems)

\* type response struct { Version string; Data any }, as written by c.JSON.
response(version, data) == [empty |-> FALSE, version |-> version, data |-> data]
EmptyBody == [empty |-> TRUE, version |-> "", data |-> NoData]

\* What the client receives: status line and body. Status 0: nothing yet.
NoResp == [status |-> 0, body |-> EmptyBody]
\* c.Status(code): the status alone, no body.
Status(code) == [status |-> code, body |-> EmptyBody]
\* c.JSON(code, obj)
JSON(code, obj) == [status |-> code, body |-> obj]
\* gin.Default() installs Recovery: a panicking handler is answered 500.
Recovery == Status(500)

\* ------------------------------------------------------ remote results
\* (out, err) of an SDK call: err, out.Buckets / out.Parameters, out.Parameter
Result(err, items, param) == [err |-> err, items |-> items, Parameter |-> param]
NoResult == Result(NoErr, <<>>, NilParameter)
ErrResult(e) == Result(e, <<>>, NilParameter)

\* Successful outputs of a listing call: any list of named items, and any
\* such list followed by an item whose Name is nil (the handlers read no item
\* after the first nil Name, so the items behind it are left out).
ListItems ==
    SeqsUpTo({Ptr(n) : n \in Names}, MaxItems)
    \cup {Append(s, NilPtr) : s \in SeqsUpTo({Ptr(n) : n \in Names}, MaxItems - 1)}
ListResults == {Result(NoErr, items, NilParameter) : items \in ListItems}
\* Successful outputs of GetParameter: Parameter nil, Value nil, or a value.
GetResults ==
    {Result(NoErr, <<>>, p) : p \in {NilParameter} \cup {Parameter(v) : v \in Ptrs(Values)}}

VARIABLES
    env,        \* the VERSION environment variable: [set, val]
    pc,         \* position of main
    cfg,        \* var cfg Config
    clients,    \* the client bundle newAWSClients returned
    routes,     \* the router: path -> [handler, version]
    exitCode,   \* exit status of the process (0 while it runs)
    loadCalls,  \* calls of config.LoadDefaultConfig
    stsCalls,   \* calls of GetCallerIdentity
    stsResult,  \* "none", "ok" or "err"
    listen,     \* outcome of binding addr in r.Run: "none", "ok" or "err"
    rq,         \* the requests being handled, one record per slot
    completed   \* the request whose handler returned last, with its response

vars == <<env, pc, cfg, clients, routes, exitCode, loadCalls, stsCalls,
          stsResult, listen, rq, completed>>

startupVars == <<env, pc, cfg, clients, routes, exitCode, loadCalls, stsCalls,
                 stsResult, listen>>

\* The port is bound: the listener of r.Run is up.
portBound == listen = "ok"

NoRoutes == [p \in {} |-> [handler |-> "", version |-> ""]]

\* A request slot before any request used it.
\* ctx is the request's own context, c.Request.Context(); cancelled tells
\* whether that context is done (the caller went away, a deadline expired).
IdleReq(i) ==
    [phase |-> "idle", ctx |-> i, path |-> "", name |-> "", cancelled |-> FALSE,
     calls |-> 0, callOp |-> "", callName |-> NilPtr, callCtx |-> Background,
     res |-> NoResult, resp |-> NoResp]

Init ==
    /\ env \in {[set |-> FALSE, val |-> ""]} \cup {[set |-> TRUE, val |-> v] : v \in Versions}
    /\ pc = "envconfig"
    /\ cfg = NoConfig
    /\ clients = NoClients
    /\ routes = NoRoutes
    /\ exitCode = 0
    /\ loadCalls = 0
    /\ stsCalls = 0
    /\ stsResult = "none"
    /\ listen = "none"
    /\ rq = [i \in Reqs |-> IdleReq(i)]
    /\ completed = IdleReq(Background)

\* ---------------------------------------------------------------- startup
\* Exit status of log.Fatal / log.Fatalf (os.Exit(1)).
FatalExit == 1
\* Exit status of a Go program that dies of an unrecovered panic.
PanicExit == 2

\* The process ends with the given status; nothing else of main runs.
Exit(code) ==
    /\ pc' = "exited"
    /\ exitCode' = code

\* envconfigProcess without `required:"true"`: a missing VERSION is no error
\* and cfg.VERSION stays "".
envconfigProcessOptional ==
    /\ pc = "envconfig"
    /\ cfg' = Config(env.val)
    /\ pc' = "LoadDefaultConfig"
    /\ UNCHANGED <<env, clients, routes, exitCode, loadCalls, stsCalls, stsResult,
                   listen, rq, completed>>

\* main: envconfig.Process("", &cfg); a required variable that is not set is
\* an error and log.Fatal ends the process. A variable set to "" is present.
envconfigProcess ==
    /\ pc = "envconfig"
    /\ IF env.set
          THEN /\ cfg' = Config(env.val)
               /\ pc' = "LoadDefaultConfig"
               /\ UNCHANGED exitCode
          ELSE /\ Exit(FatalExit)
               /\ UNCHANGED cfg
    /\ UNCHANGED <<env, clients, routes, loadCalls, stsCalls, stsResult, listen, rq, completed>>

\* newAWSClients: config.LoadDefaultConfig(ctx); on an error newAWSClients
\* returns it and main panics.
LoadDefaultConfig ==
    /\ pc = "LoadDefaultConfig"
    /\ loadCalls' = loadCalls + 1
    /\ \E ok \in BOOLEAN :
          IF ok THEN pc' = "GetCallerIdentity" /\ UNCHANGED exitCode
                ELSE Exit(PanicExit)
    /\ UNCHANGED <<env, cfg, clients, routes, stsCalls, stsResult, listen, rq, completed>>

\* GetCallerIdentity with its error dropped: the clients are built and main
\* goes on whatever the identity check said.
GetCallerIdentityUnchecked ==
    /\ pc = "GetCallerIdentity"
    /\ stsCalls' = stsCalls + 1
    /\ \E ok \in BOOLEAN : stsResult' = (IF ok THEN "ok" ELSE "err")
    /\ clients' = awsClients
    /\ pc' = "routes"
    /\ UNCHANGED <<env, cfg, routes, exitCode, loadCalls, listen, rq, completed>>

\* newAWSClients: the identity check, then the two clients; main panics when
\* newAWSClients returns an error.
GetCallerIdentity ==
    /\ pc = "GetCallerIdentity"
    /\ stsCalls' = stsCalls + 1
    /\ \E ok \in BOOLEAN :
          IF ok THEN /\ stsResult' = "ok"
                     /\ clients' = awsClients
                     /\ pc' = "routes"
                     /\ UNCHANGED exitCode
                ELSE /\ stsResult' = "err"
                     /\ Exit(PanicExit)
                     /\ UNCHANGED clients
    /\ UNCHANGED <<env, cfg, routes, loadCalls, listen, rq, completed>>

\* main: r := gin.Default() and the four r.GET; each business handler is a
\* closure over clients and cfg.VERSION.
registerRoutes ==
    /\ pc = "routes"
    /\ routes' = [p \in {"/buckets", "/parameters", "/parameters/:name", "/livez"} |->
                    CASE p = "/buckets" -> [handler |-> "listBucketsHandler", version |-> cfg.VERSION]
                      [] p = "/parameters" -> [handler |-> "listParametersHandler", version |-> cfg.VERSION]
                      [] p = "/parameters/:name" -> [handler |-> "getParameterHandler", version |-> cfg.VERSION]
                      [] OTHER -> [handler |-> "livenessHandler", version |-> ""]]
    /\ pc' = "Run"
    /\ UNCHANGED <<env, cfg, clients, exitCode, loadCalls, stsCalls, stsResult, listen, rq, completed>>

\* main: r.Run(addr) binds the port and serves; when it cannot listen it
\* returns an error and log.Fatalf ends the process.
Run ==
    /\ pc = "Run"
    /\ \E ok \in BOOLEAN :
          IF ok THEN /\ listen' = "ok"
                     /\ pc' = "serving"
                     /\ UNCHANGED exitCode
                ELSE /\ listen' = "err"
                     /\ Exit(FatalExit)
    /\ UNCHANGED <<env, cfg, clients, routes, loadCalls, stsCalls, stsResult, rq, completed>>

\* --------------------------------------------------------------- handlers
\* An SDK operation invoked by a handler: one outbound call, bound to ctx.
sdkCall(r, op, ctx, name) ==
    [r EXCEPT !.calls = @ + 1, !.callOp = op, !.callCtx = ctx,
              !.callName = name, !.phase = "inflight"]

\* The handler returns: gin writes the response and the request is over.
done(r, res, resp) ==
    [r EXCEPT !.res = res, !.resp = resp, !.phase = "done"]

\* var names []string; for _, b := range items { names = append(names, *b.Name) }
\* Dereferencing a nil Name panics in the middle of the loop.
RECURSIVE rangeNames(_, _)
rangeNames(items, names) ==
    IF items = <<>> THEN [panic |-> FALSE, names |-> names]
    ELSE IF Head(items).isNil THEN [panic |-> TRUE, names |-> names]
    ELSE rangeNames(Tail(items), append(names, Head(items).val))

\* listBucketsCall bound to context.Background() instead of the request.
listBucketsCallBackground(r) == sdkCall(r, "ListBuckets", Background, NilPtr)

\* listBucketsHandler, the call: cl.s3.ListBuckets(c.Request.Context(), ...)
listBucketsCall(r) == sdkCall(r, "ListBuckets", r.ctx, NilPtr)

\* listBucketsHandler with `names` declared outside the closure: the slice is
\* shared by all requests and keeps the names of the previous response.
listBucketsHandlerShared(r, res, version) ==
    IF res.err # NoErr THEN done(r, res, Status(500))
    ELSE LET shared == IF completed.resp.body.data.kind = "array"
                          THEN [isNil |-> FALSE, elems |-> completed.resp.body.data.items]
                          ELSE NilSlice
             n == rangeNames(res.items, shared)
         IN  IF n.panic THEN done(r, res, Recovery)
             ELSE done(r, res, JSON(200, response(version, jsonStrings(n.names))))

\* listBucketsHandler, after the call returned (out, err)
listBucketsHandler(r, res, version) ==
    IF res.err # NoErr THEN done(r, res, Status(500))
    ELSE LET n == rangeNames(res.items, NilSlice)
         IN  IF n.panic THEN done(r, res, Recovery)
             ELSE done(r, res, JSON(200, response(version, jsonStrings(n.names))))

\* listParametersHandler, the call: cl.ssm.DescribeParameters(c.Request.Context(), ...)
listParametersCall(r) == sdkCall(r, "DescribeParameters", r.ctx, NilPtr)

\* listParametersHandler answering an error with c.JSON(500, ...) and the
\* error text.
listParametersHandlerLeak(r, res, version) ==
    IF res.err # NoErr
       THEN done(r, res, JSON(500, response(version, JSONString(res.err))))
    ELSE LET n == rangeNames(res.items, NilSlice)
         IN  IF n.panic THEN done(r, res, Recovery)
             ELSE done(r, res, JSON(200, response(version, jsonStrings(n.names))))

\* listParametersHandler, after the call returned (out, err)
listParametersHandler(r, res, version) ==
    IF res.err # NoErr THEN done(r, res, Status(500))
    ELSE LET n == rangeNames(res.items, NilSlice)
         IN  IF n.panic THEN done(r, res, Recovery)
             ELSE done(r, res, JSON(200, response(version, jsonStrings(n.names))))

\* getParameterHandler, the call: name := c.Param("name");
\* cl.ssm.GetParameter(c.Request.Context(), &ssm.GetParameterInput{Name: &name})
getParameterCall(r) == sdkCall(r, "GetParameter", r.ctx, Ptr(r.name))

\* getParameterHandler calling GetParameter again when the call failed.
getParameterHandlerRetry(r, res, version) ==
    IF res.err # NoErr THEN sdkCall(r, "GetParameter", r.ctx, Ptr(r.name))
    ELSE IF res.Parameter.isNil \/ res.Parameter.Value.isNil THEN done(r, res, Recovery)
    ELSE done(r, res, JSON(200, response(version, JSONString(res.Parameter.Value.val))))

\* getParameterHandler, after the call returned (out, err);
\* *out.Parameter.Value panics on a nil Parameter and on a nil Value.
getParameterHandler(r, res, version) ==
    IF res.err # NoErr THEN done(r, res, Status(404))
    ELSE IF res.Parameter.isNil \/ res.Parameter.Value.isNil THEN done(r, res, Recovery)
    ELSE done(r, res, JSON(200, response(version, JSONString(res.Parameter.Value.val))))

\* livenessHandler probing the storage backend before it answers.
livenessHandlerProbe(r) == sdkCall(r, "ListBuckets", r.ctx, NilPtr)

\* livenessHandler: c.Status(http.StatusOK), nothing else.
livenessHandler(r) == done(r, NoResult, Status(200))

\* ----------------------------------------------------------------- server
\* The router hands an inbound request to the handler registered for its
\* path; the handler runs up to its remote call (or, for /livez, to its end).
dispatch(r) ==
    LET h == routes[r.path].handler
    IN  CASE h = "listBucketsHandler" -> listBucketsCall(r)
          [] h = "listParametersHandler" -> listParametersCall(r)
          [] h = "getParameterHandler" -> getParameterCall(r)
          [] OTHER -> livenessHandler(r)

\* The handler of r resumes with the (out, err) of its remote call.
resume(r, res) ==
    LET h == routes[r.path]
    IN  CASE h.handler = "listBucketsHandler" -> listBucketsHandler(r, res, h.version)
          [] h.handler = "listParametersHandler" -> listParametersHandler(r, res, h.version)
          [] OTHER -> getParameterHandler(r, res, h.version)

\* A context is done once its request was cancelled; Background never is.
ctxDone(c) == c # Background /\ rq[c].cancelled

\* What an SDK call bound to a context can return: the cancellation error
\* when the context is done, else any error or any successful output.
sdkOutcomes(r) ==
    IF ctxDone(r.callCtx) THEN {ErrResult(Canceled)}
    ELSE {ErrResult(e) : e \in RemoteErrors}
         \cup (IF r.callOp = "GetParameter" THEN GetResults ELSE ListResults)

\* An inbound GET arrives while the server listens and is served in a free
\* slot i: its handler runs to its remote call, or to its end when it makes
\* none.
ServeHTTP(i) ==
    /\ pc = "serving"
    /\ rq[i].phase = "idle"
    /\ \E path \in DOMAIN routes :
          \E name \in (IF path = "/parameters/:name" THEN PathNames ELSE {""}) :
             LET r == dispatch([IdleReq(i) EXCEPT !.path = path, !.name = name])
             IN  IF r.phase = "done"
                    THEN completed' = r /\ UNCHANGED rq
                    ELSE rq' = [rq EXCEPT ![i] = r] /\ UNCHANGED completed
    /\ UNCHANGED startupVars

\* The caller of request i disconnects (or its deadline expires) while the
\* remote call is in flight: net/http cancels the request's context.
cancelRequest(i) ==
    /\ pc = "serving"
    /\ rq[i].phase = "inflight"
    /\ ~rq[i].cancelled
    /\ rq' = [rq EXCEPT ![i].cancelled = TRUE]
    /\ UNCHANGED <<startupVars, completed>>

\* The remote call of request i returns and its handler resumes: it either
\* returns (the request is over and its slot free) or is in flight again.
sdkReturn(i) ==
    /\ pc = "serving"
    /\ rq[i].phase = "inflight"
    /\ \E res \in sdkOutcomes(rq[i]) :
          LET r == resume(rq[i], res)
          IN  IF r.phase = "done"
                 THEN completed' = r /\ rq' = [rq EXCEPT ![i] = IdleReq(i)]
                 ELSE rq' = [rq EXCEPT ![i] = r] /\ UNCHANGED completed
    /\ UNCHANGED startupVars

Next ==
    \/ envconfigProcess
    \/ LoadDefaultConfig
    \/ GetCallerIdentity
    \/ registerRoutes
    \/ Run
    \/ \E i \in Reqs : ServeHTTP(i)
    \/ \E i \in Reqs : cancelRequest(i)
    \/ \E i \in Reqs : sdkReturn(i)

Spec == Init /\ [][Next]_vars

\* ------------------------------------------------------------- properties
ListPaths == {"/buckets", "/parameters"}
BusinessPaths == ListPaths \cup {"/parameters/:name"}
AllPaths == BusinessPaths \cup {"/livez"}

\* The remote operation each business route stands for.
OpOf(path) ==
    CASE path = "/buckets" -> "ListBuckets"
      [] path = "/parameters" -> "DescribeParameters"
      [] OTHER -> "GetParameter"

\* The handler of a request has returned: `completed` holds it.
Completed == completed.phase = "done"
\* The response is a {version, data} envelope.
Envelope(resp) == ~resp.body.empty
\* main is over: the process serves, or it has exited.
StartupOver == pc \in {"serving", "exited"}
\* The serving state: routes registered and the listener started.
Serving == pc = "serving"
\* No request was ever handed to a handler.
NeverServed == ~Completed /\ \A i \in Reqs : rq[i].phase = "idle"

\* C1 (as stated): once startup is over, the process serves iff VERSION is
\* present and the identity check succeeded; otherwise it has exited with a
\* non-zero status and never served a request.
C1_StartupIffVersionAndIdentity ==
    StartupOver =>
        /\ Serving <=> (env.set /\ stsResult = "ok")
        /\ ~Serving => (exitCode # 0 /\ NeverServed)

\* C1 (amended): once startup is over, the process serves (routes registered,
\* port bound) iff VERSION is present, the identity check succeeded and r.Run
\* could bind its port; otherwise it has exited with a non-zero status and
\* never served a request.
C1_StartupIffVersionIdentityAndListen ==
    /\ StartupOver =>
          /\ Serving <=> (env.set /\ stsResult = "ok" /\ listen = "ok")
          /\ ~Serving => (exitCode # 0 /\ NeverServed)
    /\ Serving => (DOMAIN routes = AllPaths /\ portBound /\ exitCode = 0)
    /\ ~Serving => NeverServed

\* The process serves a request with VERSION set (to the empty string even).
C1_Witness ==
    /\ Serving /\ env.set /\ env.val = "" /\ stsResult = "ok" /\ Completed

\* C2: startup is ordered. With VERSION missing no credential resolution and
\* no identity check is ever made; any such call is made with the
\* configuration loaded; the identity check follows credential resolution;
\* binding the port is attempted only after the identity check succeeded;
\* after a failed identity check the process has exited with no port bound,
\* no client constructed and no route registered.
C2_StartupOrder ==
    /\ ~env.set => (loadCalls = 0 /\ stsCalls = 0)
    /\ (loadCalls > 0 \/ stsCalls > 0) => (env.set /\ cfg = Config(env.val))
    /\ stsCalls > 0 => loadCalls > 0
    /\ listen # "none" => stsResult = "ok"
    /\ stsResult # "ok" => (clients = NoClients /\ routes = NoRoutes)
    /\ stsResult = "err" => (pc = "exited" /\ exitCode # 0 /\ ~portBound)

\* The identity check failed and the process has exited.
C2_Witness ==
    /\ stsResult = "err" /\ pc = "exited" /\ loadCalls = 1 /\ stsCalls = 1

\* C3: a completed GET /livez was answered 200 with an empty body and its
\* handler issued no outbound call, whatever the requests in flight and the
\* result of the last remote call are.
C3_LivezAlways200NoCalls ==
    (Completed /\ completed.path = "/livez") =>
        /\ completed.resp = Status(200)
        /\ completed.calls = 0
        /\ completed.callOp = ""

\* /livez was answered while a remote call of another request hangs.
C3_Witness ==
    /\ Completed /\ completed.path = "/livez"
    /\ \E i \in Reqs : rq[i].phase = "inflight"

\* C4 (as stated): when the list call of GET /buckets or GET /parameters
\* succeeds with any sequence of items, the empty one included, the response
\* is 200 with the configured version and data a list of strings as long as
\* the sequence, holding the item names in the order returned.
C4_ListSuccessIsOrderedNameList ==
    (Completed /\ completed.path \in ListPaths /\ completed.res.err = NoErr) =>
        /\ completed.resp.status = 200
        /\ Envelope(completed.resp)
        /\ completed.resp.body.version = env.val
        /\ completed.resp.body.data.kind = "array"
        /\ Len(completed.resp.body.data.items) = Len(completed.res.items)
        /\ \A k \in 1..Len(completed.res.items) :
              /\ ~completed.res.items[k].isNil
              /\ completed.resp.body.data.items[k] = completed.res.items[k].val

\* C5: when the list call of GET /buckets or GET /parameters returns an
\* error, the response is 500 with an empty body (no envelope, no error text)
\* and the handler has returned after that single call.
C5_ListErrorIs500Empty ==
    (Completed /\ completed.path \in ListPaths /\ completed.res.err # NoErr) =>
        /\ completed.resp.status = 500
        /\ completed.resp.body = EmptyBody
        /\ completed.calls = 1

\* A list call failed with a remote error and its request was answered.
C5_Witness ==
    /\ Completed /\ completed.path = "/parameters"
    /\ completed.res.err = "AccessDenied"

\* C6 (as stated): GET /parameters/:name calls GetParameter with exactly the
\* path parameter as Name; a successful call is answered 200 with
\* {version, data: the returned value}, a call returning any error is
\* answered 404 with an empty body.
C6_GetParameterMapping ==
    (Completed /\ completed.path = "/parameters/:name") =>
        /\ completed.callOp = "GetParameter"
        /\ completed.callName = Ptr(completed.name)
        /\ completed.res.err = NoErr =>
              /\ completed.resp.status = 200
              /\ Envelope(completed.resp)
              /\ completed.resp.body.version = env.val
              /\ completed.resp.body.data.kind = "string"
              /\ ~completed.res.Parameter.isNil
              /\ completed.resp.body.data.str = completed.res.Parameter.Value.val
        /\ completed.res.err # NoErr => completed.resp = Status(404)

\* C7: every request to a business route, in flight or completed, on the
\* success and on the failure path, has caused exactly one outbound call, the
\* operation of its route; /livez causes none; GetCallerIdentity is called at
\* most once, at startup, and exactly once before the process serves.
C7_ExactlyOneRemoteCall ==
    /\ \A i \in Reqs : rq[i].phase = "inflight" =>
          /\ rq[i].path \in BusinessPaths
          /\ rq[i].calls = 1
          /\ rq[i].callOp = OpOf(rq[i].path)
    /\ (Completed /\ completed.path \in BusinessPaths) =>
          /\ completed.calls = 1
          /\ completed.callOp = OpOf(completed.path)
    /\ stsCalls <= 1
    /\ Serving => stsCalls = 1

\* A request whose remote call failed was answered after exactly one call.
C7_Witness ==
    /\ Completed /\ completed.path = "/parameters/:name"
    /\ completed.res.err = "NotFound" /\ completed.calls = 1

\* C8: with requests handled concurrently, the shared state is what startup
\* made it (configured version, client bundle, the handlers' captured
\* version), the remote call of every request is bound to that request, and a
\* success envelope holds the configured version and data taken from the
\* result of the request's own remote call only.
C8_NoInterference ==
    /\ Serving =>
          /\ cfg = Config(env.val)
          /\ clients = awsClients
          /\ \A p \in BusinessPaths : routes[p].version = env.val
    /\ \A i \in Reqs : rq[i].ctx = i
    /\ (Completed /\ Envelope(completed.resp)) =>
          /\ completed.path \in BusinessPaths
          /\ completed.res.err = NoErr
          /\ completed.resp.body.version = env.val
          /\ completed.resp.body.data.kind \in {"null", "array", "string"}
          /\ completed.resp.body.data.kind = "null" => completed.res.items = <<>>
          /\ completed.resp.body.data.kind = "array" =>
                /\ Len(completed.resp.body.data.items) = Len(completed.res.items)
                /\ \A k \in 1..Len(completed.res.items) :
                      completed.resp.body.data.items[k] = completed.res.items[k].val
          /\ completed.resp.body.data.kind = "string" =>
                completed.resp.body.data.str = completed.res.Parameter.Value.val

\* A list response was written while a request to another endpoint is in
\* flight.
C8_Witness ==
    /\ Completed /\ completed.path = "/buckets"
    /\ completed.resp.body.data.kind = "array"
    /\ Len(completed.resp.body.data.items) = MaxItems
    /\ \E i \in Reqs : rq[i].phase = "inflight" /\ rq[i].path # completed.path

\* C9: every remote call in flight is bound to the context of the request
\* that issued it; a request cancelled while its call was in flight ends with
\* that call cancelled, after that one call, and with no success envelope;
\* and a call ends cancelled only if its own request was cancelled.
C9_CancellationBoundToRequest ==
    /\ \A i \in Reqs : rq[i].phase = "inflight" => rq[i].callCtx = i
    /\ (Completed /\ completed.cancelled) =>
          /\ completed.res.err = Canceled
          /\ completed.calls = 1
          /\ completed.resp.status # 200
          /\ ~Envelope(completed.resp)
    /\ (Completed /\ completed.res.err = Canceled) => completed.cancelled

\* A cancelled request is over while another request's call is still in
\* flight, not cancelled.
C9_Witness ==
    /\ Completed /\ completed.cancelled /\ completed.res.err = Canceled
    /\ \E i \in Reqs : rq[i].phase = "inflight" /\ ~rq[i].cancelled

\* C10 (as stated): every completed request has a status of its route's set,
\* whatever the remote API returned, nil names and values included: 200 or
\* 500 for /buckets and /parameters, 200 or 404 for /parameters/:name; and an
\* envelope is written only when the remote call returned no error.
C10_StatusInRouteSet ==
    Completed =>
        /\ completed.path \in ListPaths => completed.resp.status \in {200, 500}
        /\ completed.path = "/parameters/:name" => completed.resp.status \in {200, 404}
        /\ Envelope(completed.resp) => completed.res.err = NoErr

====
